---- MODULE Spec2Model ----
(***************************************************************************)
(* A model of sire_app.py: the JSON clean-up of the "Process File"         *)
(* handler, process_inspection_data, format_date and                       *)
(* generate_question_numbers, with the Streamlit session state.            *)
(*                                                                         *)
(* Python values are tagged records ([t |-> "null"], [t |-> "str", ...]),  *)
(* Python strings are sequences of one-character strings, and a Python     *)
(* dict is the sequence of its <<key, value>> pairs in insertion order.    *)
(***************************************************************************)
EXTENDS Integers, Sequences, FiniteSets, TLC

VARIABLES
    uploaded_file,    \* the st.file_uploader widget's value
    inspection_data,  \* st.session_state.inspection_data
    metadata_list,    \* st.session_state.metadata_list
    comments_data,    \* st.session_state.comments_data
    messages,         \* the st.success / st.error / st.warning calls of the last run
    last_parsed,      \* history: the upload of the latest run whose parse succeeded
    arg,              \* the argument of the function a harness calls
    ret               \* what that call returned

vars == <<uploaded_file, inspection_data, metadata_list, comments_data,
          messages, last_parsed, arg, ret>>

(***************************************************************************)
(* Bounds of the model.                                                    *)
(***************************************************************************)
MaxComments == 4       \* comments in a list handed to generate_question_numbers
MaxMetaData == 3       \* records of a metaData array
MaxQuestions == 3      \* questions of a document
MaxResponses == 2      \* complexResponses of a question
MaxObservations == 2   \* observations of a response
MaxPayload == 4        \* bytes of an uploaded file

(***************************************************************************)
(* Python / JSON values.                                                   *)
(***************************************************************************)
None == [t |-> "null"]
Bool(b) == [t |-> "bool", b |-> b]
Num(n) == [t |-> "num", n |-> n]
Str(s) == [t |-> "str", s |-> s]
List(xs) == [t |-> "list", items |-> xs]
Dict(kvs) == [t |-> "dict", items |-> kvs]

\* bool(v): the truth value Python gives a JSON value
Truthy(v) ==
    CASE v.t = "null" -> FALSE
      [] v.t = "bool" -> v.b
      [] v.t = "num" -> v.n /= 0
      [] v.t = "str" -> v.s /= <<>>
      [] OTHER -> v.items /= <<>>

\* hash(v) raises TypeError for a list and for a dict
Hashable(v) == v.t \notin {"list", "dict"}

RECURSIVE Find(_, _, _)
\* the least index >= i of kvs whose key is k, 0 when there is none
Find(kvs, k, i) ==
    IF i > Len(kvs) THEN 0
    ELSE IF kvs[i][1] = k THEN i
    ELSE Find(kvs, k, i + 1)

\* k in d
Has(kvs, k) == Find(kvs, k, 1) /= 0

\* d[k] = v: an existing key keeps its place, a new key goes last
Put(kvs, k, v) ==
    IF Has(kvs, k)
    THEN [kvs EXCEPT ![Find(kvs, k, 1)] = <<k, v>>]
    ELSE Append(kvs, <<k, v>>)

\* d[k], for a key d holds
At(kvs, k) == kvs[Find(kvs, k, 1)][2]

\* d.get(k, default) on a dict value
Get(d, k, default) == IF Has(d.items, k) THEN At(d.items, k) ELSE default

(***************************************************************************)
(* str(n) of a natural number, as f"{n}" renders it.                        *)
(***************************************************************************)
Digits == <<"0", "1", "2", "3", "4", "5", "6", "7", "8", "9">>

RECURSIVE IntToStr(_)
IntToStr(n) ==
    IF n < 10 THEN <<Digits[n + 1]>>
    ELSE Append(IntToStr(n \div 10), Digits[(n % 10) + 1])

(***************************************************************************)
(* generate_question_numbers.                                              *)
(***************************************************************************)
\* the locals before the loop (lines 111-114)
NumberingStart ==
    [question_map |-> <<>>, current_group |-> 0, current_number |-> 0,
     last_id |-> None, raised |-> FALSE]

\* a faulty variant of NumberingStep: the counter is not reset when a group opens
NumberingStepNoReset(st, comment) ==
    LET current_id == comment.id IN
    IF st.raised \/ ~Hashable(current_id) THEN [st EXCEPT !.raised = TRUE]
    ELSE IF ~Has(st.question_map, current_id)
    THEN LET grp == IF current_id /= st.last_id
                    THEN st.current_group + 1 ELSE st.current_group
             num == st.current_number + 1
         IN [st EXCEPT !.question_map =
                           Append(st.question_map,
                                  <<current_id,
                                    IntToStr(grp) \o <<".">> \o IntToStr(num)>>),
                       !.current_group = grp,
                       !.current_number = num + 1,
                       !.last_id = current_id]
    ELSE [st EXCEPT !.current_number = st.current_number + 1]

\* one iteration of the loop (lines 116-125)
NumberingStep(st, comment) ==
    LET current_id == comment.id IN
    IF st.raised \/ ~Hashable(current_id) THEN [st EXCEPT !.raised = TRUE]
    ELSE IF ~Has(st.question_map, current_id)
    THEN LET new == current_id /= st.last_id
             grp == IF new THEN st.current_group + 1 ELSE st.current_group
             num == IF new THEN 1 ELSE st.current_number
         IN [st EXCEPT !.question_map =
                           Append(st.question_map,
                                  <<current_id,
                                    IntToStr(grp) \o <<".">> \o IntToStr(num)>>),
                       !.current_group = grp,
                       !.current_number = num + 1,
                       !.last_id = current_id]
    ELSE [st EXCEPT !.current_number = st.current_number + 1]

RECURSIVE NumberingLoop(_, _, _)
NumberingLoop(st, comments, i) ==
    IF i > Len(comments) THEN st
    ELSE NumberingLoop(NumberingStep(st, comments[i]), comments, i + 1)

\* the returned dict, or raised when an identifier is unhashable
generate_question_numbers(comments) ==
    LET st == NumberingLoop(NumberingStart, comments, 1) IN
    [raised |-> st.raised, question_map |-> st.question_map]

(***************************************************************************)
(* format_date: datetime.strptime(s, "%Y-%m-%dT%H:%M:%S") and              *)
(* strftime("%Y-%m-%d %H:%M").  Each directive of the pattern is the       *)
(* regular expression _strptime compiles it to; the text before the next   *)
(* literal (or the end) has to match it whole.                              *)
(***************************************************************************)
IsDigit(c) == \E k \in 1..10 : Digits[k] = c

DigitVal(c) == (CHOOSE k \in 1..10 : Digits[k] = c) - 1

RECURSIVE DigitRun(_, _)
\* how many digits s holds from position p on
DigitRun(s, p) ==
    IF p <= Len(s) /\ IsDigit(s[p]) THEN 1 + DigitRun(s, p + 1) ELSE 0

RECURSIVE ToInt(_, _, _)
\* int() of the n digits of s from p on
ToInt(s, p, n) ==
    IF n = 0 THEN 0 ELSE 10 * ToInt(s, p, n - 1) + DigitVal(s[p + n - 1])

\* one numeric directive at p: lo..hi in `widths` digits
Directive(s, p, widths, lo, hi) ==
    LET n == DigitRun(s, p)
        v == ToInt(s, p, n)
    IN [ok |-> n \in widths /\ lo <= v /\ v <= hi, val |-> v, next |-> p + n]

\* %d also takes a blank and one digit 1-9
DayDirective(s, p) ==
    IF p <= Len(s) /\ s[p] = " "
    THEN LET n == DigitRun(s, p + 1)
             v == ToInt(s, p + 1, n)
         IN [ok |-> n = 1 /\ v >= 1, val |-> v, next |-> p + 1 + n]
    ELSE Directive(s, p, {1, 2}, 1, 31)

\* a literal character of the pattern at p
Literal(s, p, c) == p <= Len(s) /\ s[p] = c

IsLeap(y) == (y % 4 = 0 /\ y % 100 /= 0) \/ y % 400 = 0

DaysInMonth(y, m) ==
    IF m = 2 THEN (IF IsLeap(y) THEN 29 ELSE 28)
    ELSE IF m \in {4, 6, 9, 11} THEN 30 ELSE 31

\* the date constructor's own checks, after every directive has matched
\* and nothing is left of s
Matched(s, Y, m, d, H, M, S) ==
    [ok |-> /\ Y.ok /\ Literal(s, Y.next, "-")
            /\ m.ok /\ Literal(s, m.next, "-")
            /\ d.ok /\ Literal(s, d.next, "T")
            /\ H.ok /\ Literal(s, H.next, ":")
            /\ M.ok /\ Literal(s, M.next, ":")
            /\ S.ok /\ S.next = Len(s) + 1
            /\ Y.val >= 1 /\ d.val <= DaysInMonth(Y.val, m.val)
            /\ S.val <= 59,
     Y |-> Y.val, m |-> m.val, d |-> d.val, H |-> H.val, M |-> M.val]

FromMinute(s, Y, m, d, H, M) ==
    Matched(s, Y, m, d, H, M, Directive(s, M.next + 1, {1, 2}, 0, 61))

FromHour(s, Y, m, d, H) ==
    FromMinute(s, Y, m, d, H, Directive(s, H.next + 1, {1, 2}, 0, 59))

FromDay(s, Y, m, d) == FromHour(s, Y, m, d, Directive(s, d.next + 1, {1, 2}, 0, 23))

FromMonth(s, Y, m) == FromDay(s, Y, m, DayDirective(s, m.next + 1))

FromYear(s, Y) == FromMonth(s, Y, Directive(s, Y.next + 1, {1, 2}, 1, 12))

\* datetime.strptime(s, "%Y-%m-%dT%H:%M:%S"): ok, or the ValueError of a
\* text that does not match the pattern, leaves text unconverted or names
\* no date
Strptime(s) == FromYear(s, Directive(s, 1, {4}, 0, 9999))

\* %m, %d, %H, %M: two digits
Pad2(n) == <<Digits[(n \div 10) + 1], Digits[(n % 10) + 1]>>

\* dt.strftime("%Y-%m-%d %H:%M"); %Y is not padded (glibc)
Strftime(dt) ==
    IntToStr(dt.Y) \o <<"-">> \o Pad2(dt.m) \o <<"-">> \o Pad2(dt.d)
        \o <<" ">> \o Pad2(dt.H) \o <<":">> \o Pad2(dt.M)

RECURSIVE IndexOf(_, _, _)
\* the least position >= p of character c in s, 0 when there is none
IndexOf(s, c, p) ==
    IF p > Len(s) THEN 0 ELSE IF s[p] = c THEN p ELSE IndexOf(s, c, p + 1)

\* s.split(c)[0]
BeforeFirst(s, c) ==
    IF IndexOf(s, c, 1) = 0 THEN s ELSE SubSeq(s, 1, IndexOf(s, c, 1) - 1)

\* lines 104 and 107: the date rendered, or the except branch
Rendered(date_str, dt) == IF dt.ok THEN Str(Strftime(dt)) ELSE date_str

\* format_date (lines 96-107), of any JSON value: every exception of the
\* try block (a value that is no str) gives the value back
format_date(date_str) ==
    IF ~Truthy(date_str) THEN Str(<<>>)
    ELSE IF date_str.t = "str" /\ IndexOf(date_str.s, "T", 1) /= 0
    THEN Rendered(date_str, Strptime(BeforeFirst(date_str.s, ".")))
    ELSE date_str

(***************************************************************************)
(* process_inspection_data.                                                *)
(***************************************************************************)
\* iter(v): the items of a list, the keys of a dict, the characters of a
\* str; TypeError for anything else
Iter(v) ==
    CASE v.t = "list" -> [raised |-> FALSE, items |-> v.items]
      [] v.t = "dict" ->
            [raised |-> FALSE,
             items |-> [k \in 1..Len(v.items) |-> Str(<<v.items[k][1]>>)]]
      [] v.t = "str" ->
            [raised |-> FALSE, items |-> [k \in 1..Len(v.s) |-> Str(<<v.s[k]>>)]]
      [] OTHER -> [raised |-> TRUE, items |-> <<>>]

RECURSIVE Contains(_, _, _)
\* pat in s, looking from position p on
Contains(s, pat, p) ==
    IF p + Len(pat) - 1 > Len(s) THEN FALSE
    ELSE IF SubSeq(s, p, p + Len(pat) - 1) = pat THEN TRUE
    ELSE Contains(s, pat, p + 1)

\* any(x in key for x in ['DATE', 'DATETIME']) (line 142)
IsDateKey(key) ==
    \/ Contains(key, <<"D", "A", "T", "E">>, 1)
    \/ Contains(key, <<"D", "A", "T", "E", "T", "I", "M", "E">>, 1)

\* the state of a loop: what it has built, and whether it has raised
Raised(st) == [st EXCEPT !.raised = TRUE]

\* a faulty variant of MetadataStep: a key seen before gets a second row
MetadataStepAppend(st, item) ==
    IF \/ st.raised
       \/ item.t /= "dict"
       \/ ~Has(item.items, "key") \/ ~Has(item.items, "value")
       \/ At(item.items, "key").t /= "str"
    THEN Raised(st)
    ELSE LET key == At(item.items, "key").s
             value == At(item.items, "value")
         IN [st EXCEPT !.metadata =
                Append(st.metadata,
                       <<key, IF IsDateKey(key) THEN format_date(value) ELSE value>>)]

\* one iteration of the metaData loop (lines 137-145); item['key'] of what
\* is no dict, a missing 'key' or 'value', and a key that is no str all raise
MetadataStep(st, item) ==
    IF \/ st.raised
       \/ item.t /= "dict"
       \/ ~Has(item.items, "key") \/ ~Has(item.items, "value")
       \/ At(item.items, "key").t /= "str"
    THEN Raised(st)
    ELSE LET key == At(item.items, "key").s
             value == At(item.items, "value")
         IN [st EXCEPT !.metadata =
                Put(st.metadata, key,
                    IF IsDateKey(key) THEN format_date(value) ELSE value)]

RECURSIVE MetadataLoop(_, _, _)
MetadataLoop(st, items, i) ==
    IF i > Len(items) THEN st
    ELSE MetadataLoop(MetadataStep(st, items[i]), items, i + 1)

(***************************************************************************)
(* The four nested loops that collect the comments (lines 150-163).  .get  *)
(* on what is no dict raises AttributeError, and iterating what is not     *)
(* iterable raises TypeError; a loop that has raised does nothing more.    *)
(***************************************************************************)
EmptyStr == Str(<<>>)

EmptyList == List(<<>>)

\* the dict appended at lines 158-163
CommentOf(template_id, observation, op_comment) ==
    [id |-> template_id,
     inspector_comment |-> Get(observation, "comments", EmptyStr),
     operator_comment |-> Get(op_comment, "comments", EmptyStr),
     date |-> format_date(Get(op_comment, "commentDate", EmptyStr))]

RECURSIVE OperatorCommentLoop(_, _, _, _, _)
OperatorCommentLoop(st, template_id, observation, ops, k) ==
    IF k > Len(ops) \/ st.raised THEN st
    ELSE IF ops[k].t /= "dict" THEN Raised(st)
    ELSE OperatorCommentLoop(
             [st EXCEPT !.comments =
                 Append(st.comments, CommentOf(template_id, observation, ops[k]))],
             template_id, observation, ops, k + 1)

\* a faulty variant of ObservationStep: an observation without comments is kept
ObservationStepUnfiltered(st, template_id, observation) ==
    LET ops == Iter(Get(observation, "initialOperatorComments", EmptyList)) IN
    IF st.raised \/ observation.t /= "dict" THEN Raised(st)
    ELSE IF ops.raised THEN Raised(st)
    ELSE OperatorCommentLoop(st, template_id, observation, ops.items, 1)

\* the body of the observations loop (lines 156-163)
ObservationStep(st, template_id, observation) ==
    LET ops == Iter(Get(observation, "initialOperatorComments", EmptyList)) IN
    IF st.raised \/ observation.t /= "dict" THEN Raised(st)
    ELSE IF ~Truthy(Get(observation, "comments", None)) THEN st
    ELSE IF ops.raised THEN Raised(st)
    ELSE OperatorCommentLoop(st, template_id, observation, ops.items, 1)

RECURSIVE ObservationLoop(_, _, _, _)
ObservationLoop(st, template_id, observations, j) ==
    IF j > Len(observations) THEN st
    ELSE ObservationLoop(ObservationStep(st, template_id, observations[j]),
                         template_id, observations, j + 1)

\* the body of the complexResponses loop (lines 155-163)
ResponseStep(st, template_id, response) ==
    LET observations == Iter(Get(response, "observations", EmptyList)) IN
    IF st.raised \/ response.t /= "dict" THEN Raised(st)
    ELSE IF observations.raised THEN Raised(st)
    ELSE ObservationLoop(st, template_id, observations.items, 1)

RECURSIVE ResponseLoop(_, _, _, _)
ResponseLoop(st, template_id, responses, i) ==
    IF i > Len(responses) THEN st
    ELSE ResponseLoop(ResponseStep(st, template_id, responses[i]),
                      template_id, responses, i + 1)

\* the body of the questions loop (lines 152-163)
QuestionStep(st, question) ==
    LET responses == Iter(Get(question, "complexResponses", EmptyList)) IN
    IF st.raised \/ question.t /= "dict" THEN Raised(st)
    ELSE IF responses.raised THEN Raised(st)
    ELSE ResponseLoop(st, Get(question, "templateQuestionId", EmptyStr),
                      responses.items, 1)

RECURSIVE QuestionLoop(_, _, _)
QuestionLoop(st, questions, q) ==
    IF q > Len(questions) THEN st
    ELSE QuestionLoop(QuestionStep(st, questions[q]), questions, q + 1)

\* a faulty variant of CommentRow: the label is computed from the row's own place
CommentRowByPlace(question_numbers, comments, k) ==
    <<Str(IntToStr(k) \o <<".">> \o IntToStr(1)),
      comments[k].inspector_comment, comments[k].operator_comment,
      comments[k].date>>

\* the row appended at lines 172-178
CommentRow(question_numbers, comments, k) ==
    <<Str(At(question_numbers, comments[k].id)),
      comments[k].inspector_comment, comments[k].operator_comment,
      comments[k].date>>

\* list(metadata.items()) (line 147)
MetadataList(metadata) ==
    List([k \in 1..Len(metadata) |-> <<Str(metadata[k][1]), metadata[k][2]>>])

\* comments_data (lines 169-178)
CommentsData(question_numbers, comments) ==
    List([k \in 1..Len(comments) |-> CommentRow(question_numbers, comments, k)])

\* what process_inspection_data hands back, and the st.error it made
Returned(metadata_list_, comments_data_, errors) ==
    [metadata_list |-> metadata_list_, comments_data |-> comments_data_,
     errors |-> errors]

ProcessingError == [kind |-> "error", text |-> "Error processing data"]

\* the except branch (lines 182-184)
Failed == Returned(None, None, <<ProcessingError>>)

\* lines 166-180, or the except branch when anything before has raised
Numbered(meta, coll, numbers) ==
    IF meta.raised \/ coll.raised \/ numbers.raised THEN Failed
    ELSE Returned(MetadataList(meta.metadata),
                  CommentsData(numbers.question_map, coll.comments), <<>>)

\* the try block once both loops have run (lines 147, 166)
Collected(meta, coll) ==
    Numbered(meta, coll, generate_question_numbers(coll.comments))

\* a faulty variant of IsEmptyInput: {} is processed like any other dict
IsEmptyInputNullOnly(inspection_data_) == inspection_data_.t = "null"

\* `not inspection_data` (line 131)
IsEmptyInput(inspection_data_) == ~Truthy(inspection_data_)

\* process_inspection_data (lines 129-184)
process_inspection_data(inspection_data_) ==
    LET items == Iter(Get(inspection_data_, "metaData", EmptyList))
        questions == Iter(Get(inspection_data_, "questions", EmptyList))
    IN IF IsEmptyInput(inspection_data_) THEN Returned(None, None, <<>>)
       ELSE IF inspection_data_.t /= "dict" THEN Failed
       ELSE Collected(
                MetadataLoop([raised |-> items.raised, metadata |-> <<>>],
                             items.items, 1),
                QuestionLoop([raised |-> questions.raised, comments |-> <<>>],
                             questions.items, 1))

(***************************************************************************)
(* Text.  A character is a one-character string, or the name of a          *)
(* character that has no printed form: NUL, TAB, LF, VT, FF, CR, and FFFD  *)
(* (U+FFFD, the replacement character).  BAD is a byte that is not UTF-8.  *)
(***************************************************************************)
\* bytes.decode('utf-8', errors='replace') (line 253)
Decode(bytes) ==
    [k \in 1..Len(bytes) |-> IF bytes[k] = "BAD" THEN "FFFD" ELSE bytes[k]]

\* the characters with ord(c) < 32
ControlCharacters == {"NUL", "TAB", "LF", "VT", "FF", "CR"}

\* the characters str.strip() removes
PythonSpace == {" ", "TAB", "LF", "VT", "FF", "CR"}

\* the characters json skips between tokens
JsonSpace == {" ", "TAB", "LF", "CR"}

\* s.startswith(prefix)
StartsWith(s, prefix) ==
    Len(s) >= Len(prefix) /\ SubSeq(s, 1, Len(prefix)) = prefix

RECURSIVE IndexOfText(_, _, _)
\* s.find(pat, p - 1) + 1: the least place >= p where pat is in s, 0 if none
IndexOfText(s, pat, p) ==
    IF p + Len(pat) - 1 > Len(s) THEN 0
    ELSE IF SubSeq(s, p, p + Len(pat) - 1) = pat THEN p
    ELSE IndexOfText(s, pat, p + 1)

\* s.replace(old, new, 1)
ReplaceFirst(s, old, new) ==
    LET i == IndexOfText(s, old, 1) IN
    IF i = 0 THEN s
    ELSE SubSeq(s, 1, i - 1) \o new \o SubSeq(s, i + Len(old), Len(s))

RECURSIVE LeadingSpace(_, _)
\* how many characters of PythonSpace s starts with, from p on
LeadingSpace(s, p) ==
    IF p <= Len(s) /\ s[p] \in PythonSpace THEN 1 + LeadingSpace(s, p + 1) ELSE 0

RECURSIVE TrailingSpace(_, _)
\* how many characters of PythonSpace s ends with, from p back
TrailingSpace(s, p) ==
    IF p >= 1 /\ s[p] \in PythonSpace THEN 1 + TrailingSpace(s, p - 1) ELSE 0

\* s.strip()
Strip(s) ==
    IF LeadingSpace(s, 1) = Len(s) THEN <<>>
    ELSE SubSeq(s, LeadingSpace(s, 1) + 1, Len(s) - TrailingSpace(s, Len(s)))

\* the repair of the start of the text (lines 257-262)
PrefixRepair(file_content) ==
    IF StartsWith(file_content, <<"{", "\"", ",">>)
    THEN ReplaceFirst(file_content, <<"{", "\"", ",">>, <<"{">>)
    ELSE IF StartsWith(file_content, <<"{", "\"">>) THEN file_content
    ELSE IF StartsWith(file_content, <<"{", ",">>)
    THEN ReplaceFirst(file_content, <<"{", ",">>, <<"{">>)
    ELSE file_content

NotNul(c) == c /= "NUL"

NotCr(c) == c /= "CR"

\* a faulty variant of RemoveNulAndCr: the NUL characters stay
RemoveCrOnly(file_content) == SelectSeq(file_content, NotCr)

\* the two replace calls of lines 268-269
RemoveNulAndCr(file_content) ==
    SelectSeq(SelectSeq(file_content, NotNul), NotCr)

\* file_content as json.loads first gets it (lines 253-269)
Cleaned(bytes) == RemoveNulAndCr(Strip(PrefixRepair(Decode(bytes))))

\* ord(c) >= 32 or c in '\n\t' (line 280)
Standard(c) == c \notin ControlCharacters \/ c \in {"LF", "TAB"}

\* clean_content before line 282
Filtered(file_content) == SelectSeq(file_content, Standard)

\* lines 282-283, for a text that holds a "{": '{' + split('{', 1)[1]
Rebraced(clean_content) ==
    IF StartsWith(clean_content, <<"{">>) THEN clean_content
    ELSE <<"{">> \o SubSeq(clean_content, IndexOf(clean_content, "{", 1) + 1,
                           Len(clean_content))

(***************************************************************************)
(* json.loads, on the characters above: objects, strings and numbers made  *)
(* of digits.  Each scanner gives the place after what it read, 0 when it  *)
(* raises JSONDecodeError.                                                  *)
(***************************************************************************)
CharAt(s, p) == IF p \in 1..Len(s) THEN s[p] ELSE "EOF"

RECURSIVE SkipSpace(_, _)
SkipSpace(s, p) ==
    IF CharAt(s, p) \in JsonSpace THEN SkipSpace(s, p + 1) ELSE p

RECURSIVE StringEnd(_, _)
\* the place after the closing quote of the string whose content starts at
\* p; a control character in a string is an error
StringEnd(s, p) ==
    IF p > Len(s) \/ s[p] \in ControlCharacters THEN 0
    ELSE IF s[p] = "\"" THEN p + 1
    ELSE StringEnd(s, p + 1)

\* -?(0|[1-9]\d*), of which the characters give the digits
NumberEnd(s, p) == IF s[p] = "0" THEN p + 1 ELSE p + DigitRun(s, p)

RECURSIVE ValueEnd(_, _)
RECURSIVE MembersEnd(_, _)
ValueEnd(s, p) ==
    CASE CharAt(s, p) = "\"" -> StringEnd(s, p + 1)
      [] CharAt(s, p) = "{" ->
            IF CharAt(s, SkipSpace(s, p + 1)) = "}" THEN SkipSpace(s, p + 1) + 1
            ELSE MembersEnd(s, SkipSpace(s, p + 1))
      [] IsDigit(CharAt(s, p)) -> NumberEnd(s, p)
      [] OTHER -> 0

\* "key" : value, then a "}" or a "," and the next member
MembersEnd(s, p) ==
    IF CharAt(s, p) /= "\"" \/ StringEnd(s, p + 1) = 0 THEN 0
    ELSE LET colon == SkipSpace(s, StringEnd(s, p + 1))
             value == ValueEnd(s, SkipSpace(s, colon + 1))
             next == SkipSpace(s, value)
         IN IF CharAt(s, colon) /= ":" \/ value = 0 THEN 0
            ELSE IF CharAt(s, next) = "}" THEN next + 1
            ELSE IF CharAt(s, next) = "," THEN MembersEnd(s, SkipSpace(s, next + 1))
            ELSE 0

\* json.loads(s) does not raise: one value, white space around it
JsonValid(s) ==
    LET end == ValueEnd(s, SkipSpace(s, 1)) IN
    end /= 0 /\ SkipSpace(s, end) = Len(s) + 1

\* what json.loads(s) returns for a valid s.  A number and a string are
\* read from the text, {} is the empty dict; the members of an object are
\* not spelled in this alphabet: such a text stands for the document the
\* file carries.
JsonValue(s, document) ==
    LET p == SkipSpace(s, 1) IN
    CASE s[p] = "\"" -> Str(SubSeq(s, p + 1, StringEnd(s, p + 1) - 2))
      [] s[p] = "{" -> IF CharAt(s, SkipSpace(s, p + 1)) = "}" THEN Dict(<<>>)
                       ELSE document
      [] OTHER -> Num(ToInt(s, p, NumberEnd(s, p) - p))

JSONDecodeError(s) == [exc |-> "JSONDecodeError", doc |-> s]

IndexError == [exc |-> "IndexError"]

(***************************************************************************)
(* The "Process File" handler (lines 249-293).                             *)
(***************************************************************************)
\* an uploaded file: its bytes, and the document its object text stands for
File(bytes, document) == [t |-> "file", bytes |-> bytes, document |-> document]

Message(kind, text) == [kind |-> kind, text |-> text]

Failure(text, detail) == [kind |-> "error", text |-> text, detail |-> detail]

LoadedSuccessfully == Message("success", "File loaded successfully!")

LoadedWithCleanup == Message("success", "File loaded successfully with cleanup!")

UploadFirst == Message("warning", "Please upload a JSON file first")

\* lines 284-289: the second json.loads, of the text that starts with "{"
SecondAttempt(clean_content, document) ==
    IF JsonValid(clean_content)
    THEN [parsed |-> TRUE, value |-> JsonValue(clean_content, document),
          said |-> LoadedWithCleanup]
    ELSE [parsed |-> FALSE,
          said |-> Failure("Invalid JSON format", JSONDecodeError(clean_content))]

\* lines 280-283: split('{', 1)[1] of a text without "{" raises IndexError,
\* which the handler of line 290 catches
Recover(clean_content, document) ==
    IF ~StartsWith(clean_content, <<"{">>) /\ IndexOf(clean_content, "{", 1) = 0
    THEN [parsed |-> FALSE, said |-> Failure("Error loading file", IndexError)]
    ELSE SecondAttempt(Rebraced(clean_content), document)

\* lines 271-291: parsed, at the first or the second attempt, with the
\* value; or the message of the exception that ends the handler
FirstAttempt(file_content, document) ==
    IF JsonValid(file_content)
    THEN [parsed |-> TRUE, value |-> JsonValue(file_content, document),
          said |-> LoadedSuccessfully]
    ELSE Recover(Filtered(file_content), document)

Parse(file) == FirstAttempt(Cleaned(file.bytes), file.document)

\* a faulty variant of KeptOnFailure: a failed parse clears the session value
ClearedOnFailure(value) == None

\* a session value after a run whose parse failed: nothing assigns it
KeptOnFailure(value) == value

\* lines 273-275 and 285-287: the three assignments and the messages
Loaded(got, tables) ==
    /\ inspection_data' = got.value
    /\ metadata_list' = tables.metadata_list
    /\ comments_data' = tables.comments_data
    /\ messages' = tables.errors \o <<got.said>>
    /\ last_parsed' = uploaded_file

\* lines 251-291, for the file in the uploader
Handled(got) ==
    IF got.parsed THEN Loaded(got, process_inspection_data(got.value))
    ELSE /\ inspection_data' = KeptOnFailure(inspection_data)
         /\ metadata_list' = KeptOnFailure(metadata_list)
         /\ comments_data' = KeptOnFailure(comments_data)
         /\ messages' = <<got.said>>
         /\ UNCHANGED last_parsed

\* the button is pressed (lines 249-293)
ProcessFile ==
    /\ IF uploaded_file = None
       THEN /\ messages' = <<UploadFirst>>
            /\ UNCHANGED <<inspection_data, metadata_list, comments_data,
                           last_parsed>>
       ELSE Handled(Parse(uploaded_file))
    /\ UNCHANGED <<uploaded_file, arg, ret>>

(***************************************************************************)
(* The inputs the harnesses draw from.                                     *)
(***************************************************************************)
Least(S) == CHOOSE x \in S : \A y \in S : x <= y

Greatest(S) == CHOOSE x \in S : \A y \in S : x >= y

\* the sequences over S of length at most n
SeqsUpTo(S, n) == UNION {[1..k -> S] : k \in 0..n}

IdA == Str(<<"A">>)

IdB == Str(<<"B">>)

\* the values line 152 can give template_id: a string, '' and null
Identifiers == {IdA, IdB, EmptyStr, None}

CommentLists ==
    SeqsUpTo({[id |-> x, inspector_comment |-> Str(<<"c">>),
               operator_comment |-> Str(<<"r">>), date |-> EmptyStr]
                 : x \in Identifiers}, MaxComments)

DateText ==
    <<"2", "0", "2", "4", "-", "0", "3", "-", "0", "5", "T", "1", "4", ":",
      "3", "0", ":", "0", "0", ".", "0", "0", "0", "Z">>

KeyDate == <<"D", "A", "T", "E">>

MetaDataRecords ==
    {Dict(<<<<"key", Str(k)>>, <<"value", v>>>>) :
        k \in {<<"k">>, <<"j">>, KeyDate},
        v \in {Str(<<"v">>), Str(DateText), EmptyStr}}

\* documents that vary in their metaData
MetaDataDocuments ==
    {Dict(<<<<"metaData", List(m)>>>>) : m \in SeqsUpTo(MetaDataRecords, MaxMetaData)}

Op1 ==
    Dict(<<<<"comments", Str(<<"r", "1">>)>>, <<"commentDate", Str(DateText)>>>>)

Op2 == Dict(<<<<"comments", Str(<<"r", "2">>)>>>>)

\* an observation without a comments field
ObsSilent == Dict(<<<<"initialOperatorComments", List(<<Op1>>)>>>>)

ObsOne ==
    Dict(<<<<"comments", Str(<<"c">>)>>,
           <<"initialOperatorComments", List(<<Op2>>)>>>>)

ObsTwo ==
    Dict(<<<<"comments", Str(<<"d">>)>>,
           <<"initialOperatorComments", List(<<Op1, Op2>>)>>>>)

\* comments is the empty string
ObsEmpty ==
    Dict(<<<<"comments", EmptyStr>>,
           <<"initialOperatorComments", List(<<Op1>>)>>>>)

\* comments, and no initialOperatorComments
ObsUnanswered == Dict(<<<<"comments", Str(<<"c">>)>>>>)

Response(observations) == Dict(<<<<"observations", List(observations)>>>>)

Question(id, responses) ==
    Dict(<<<<"templateQuestionId", id>>, <<"complexResponses", List(responses)>>>>)

\* a question without a templateQuestionId
AnonymousQuestion(responses) == Dict(<<<<"complexResponses", List(responses)>>>>)

Questions(qs) == Dict(<<<<"questions", List(qs)>>>>)

\* one question: one response that varies in its observations, or
\* responses that vary in number and kind
DeepDocuments ==
    {Questions(<<Question(IdA, <<Response(os)>>)>>) :
        os \in SeqsUpTo({ObsSilent, ObsOne, ObsTwo, ObsEmpty}, MaxObservations)}
    \cup
    {Questions(<<Question(IdA, rs)>>) :
        rs \in SeqsUpTo({Response(<<ObsOne>>), Response(<<ObsSilent, ObsTwo>>),
                         Dict(<<>>)},
                        MaxResponses)}

\* several questions, varying in their identifiers
WideDocuments ==
    {Questions(qs) :
        qs \in SeqsUpTo({Question(IdA, <<Response(<<ObsOne>>)>>),
                         Question(IdA, <<Response(<<ObsTwo>>)>>),
                         Question(IdB, <<Response(<<ObsOne>>)>>),
                         Question(None, <<Response(<<ObsTwo>>)>>),
                         AnonymousQuestion(<<Response(<<ObsOne>>)>>),
                         Question(EmptyStr, <<Response(<<ObsTwo>>)>>)},
                        MaxQuestions)}

\* documents with fields missing or empty
PartialDocuments ==
    {Dict(<<>>),
     Dict(<<<<"other", Num(1)>>>>),
     Dict(<<<<"metaData", EmptyList>>, <<"questions", EmptyList>>>>),
     Dict(<<<<"questions", EmptyList>>>>),
     Dict(<<<<"metaData", List(<<Dict(<<<<"key", Str(<<"k">>)>>,
                                       <<"value", Str(<<"v">>)>>>>)>>)>>>>),
     Dict(<<<<"metaData", EmptyStr>>, <<"questions", Dict(<<>>)>>>>),
     Dict(<<<<"metaData", List(<<Dict(<<<<"key", Str(KeyDate)>>,
                                       <<"value", None>>>>)>>)>>,
            <<"questions", List(<<Dict(<<>>)>>)>>>>),
     Questions(<<Question(IdA, <<Response(<<ObsEmpty, ObsTwo>>)>>)>>),
     Questions(<<Question(IdA, <<Response(<<ObsUnanswered, ObsOne>>)>>)>>),
     Questions(<<Question(List(<<>>), <<Response(<<ObsSilent>>)>>)>>)}

\* what json.loads can return that is no document: falsy values, values
\* that are no dict, and dicts whose traversal raises
MalformedDocuments ==
    {None, Num(0), Bool(FALSE), EmptyStr, EmptyList,
     Num(1), Bool(TRUE), Str(<<"v">>), List(<<Num(1)>>),
     Dict(<<<<"metaData", None>>>>),
     Dict(<<<<"metaData", List(<<Num(1)>>)>>>>),
     Dict(<<<<"metaData", Str(<<"v">>)>>>>),
     Dict(<<<<"metaData", List(<<Dict(<<<<"key", Str(<<"k">>)>>>>)>>)>>>>),
     Dict(<<<<"metaData", List(<<Dict(<<<<"key", List(<<>>)>>,
                                       <<"value", Str(<<"v">>)>>>>)>>)>>>>),
     Dict(<<<<"questions", None>>>>),
     Dict(<<<<"questions", List(<<Str(<<"v">>)>>)>>>>),
     Dict(<<<<"questions", Dict(<<<<"a", Num(1)>>>>)>>>>),
     Questions(<<Dict(<<<<"complexResponses", Num(1)>>>>)>>),
     Questions(<<Question(IdA, <<Dict(<<<<"observations", None>>>>)>>)>>),
     Questions(<<Question(IdA, <<Response(<<Str(<<"v">>)>>)>>)>>),
     Questions(<<Question(IdA,
         <<Response(<<Dict(<<<<"comments", Str(<<"c">>)>>,
                             <<"initialOperatorComments", None>>>>)>>)>>)>>),
     Questions(<<Question(IdA,
         <<Response(<<Dict(<<<<"comments", Str(<<"c">>)>>,
                             <<"initialOperatorComments", List(<<Num(1)>>)>>>>)>>)>>)>>),
     Questions(<<Question(List(<<>>), <<Response(<<ObsOne>>)>>)>>),
     Dict(<<<<"metaData", List(<<Num(1)>>)>>, <<"questions", EmptyList>>>>),
     Dict(<<<<"metaData", EmptyList>>, <<"questions", None>>>>)}

Documents ==
    MetaDataDocuments \cup DeepDocuments \cup WideDocuments
        \cup PartialDocuments \cup MalformedDocuments

(***************************************************************************)
(* The harnesses: a call of generate_question_numbers and a call of        *)
(* process_inspection_data on an argument drawn from the sets above.       *)
(***************************************************************************)
NotCalled == [called |-> FALSE]

NoSession ==
    /\ uploaded_file = None
    /\ inspection_data = None
    /\ metadata_list = None
    /\ comments_data = None
    /\ messages = <<>>
    /\ last_parsed = None

session == <<uploaded_file, inspection_data, metadata_list, comments_data,
             messages, last_parsed>>

InitNumbering == NoSession /\ arg \in CommentLists /\ ret = NotCalled

CallGenerateQuestionNumbers ==
    /\ ~ret.called
    /\ ret' = [called |-> TRUE, val |-> generate_question_numbers(arg)]
    /\ UNCHANGED <<session, arg>>

SpecNumbering == InitNumbering /\ [][CallGenerateQuestionNumbers]_vars

InitExtract == NoSession /\ arg \in Documents /\ ret = NotCalled

CallProcessInspectionData ==
    /\ ~ret.called
    /\ ret' = [called |-> TRUE, val |-> process_inspection_data(arg)]
    /\ UNCHANGED <<session, arg>>

SpecExtract == InitExtract /\ [][CallProcessInspectionData]_vars

(***************************************************************************)
(* Claims about generate_question_numbers (under SpecNumbering).           *)
(***************************************************************************)
\* the entries of a dict, as a set
Entries(kvs) == {kvs[k] : k \in 1..Len(kvs)}

\* the scan the specification words: lastSeenIdentifier starts undefined,
\* which no identifier equals; a new identifier that differs from it opens a
\* group and resets the sequence to 0; the sequence is incremented, the
\* label assigned; the sequence is incremented again for every comment
SpecifiedStep(st, id) ==
    IF ~Has(st.labels, id)
    THEN LET grp == IF id /= st.lastSeenIdentifier
                    THEN st.currentGroupLabel + 1 ELSE st.currentGroupLabel
             sqn == (IF id /= st.lastSeenIdentifier
                     THEN 0 ELSE st.currentSequenceInGroup) + 1
         IN [labels |-> Append(st.labels,
                               <<id, IntToStr(grp) \o <<".">> \o IntToStr(sqn)>>),
             currentGroupLabel |-> grp,
             currentSequenceInGroup |-> sqn + 1,
             lastSeenIdentifier |-> id]
    ELSE [st EXCEPT !.currentSequenceInGroup = st.currentSequenceInGroup + 1]

RECURSIVE SpecifiedScan(_, _, _)
SpecifiedScan(st, comments, i) ==
    IF i > Len(comments) THEN st.labels
    ELSE SpecifiedScan(SpecifiedStep(st, comments[i].id), comments, i + 1)

SpecifiedLabels(comments) ==
    SpecifiedScan([labels |-> <<>>, currentGroupLabel |-> 0,
                   currentSequenceInGroup |-> 0,
                   lastSeenIdentifier |-> [t |-> "undefined"]], comments, 1)

\* C1: for every list of comments whose identifiers are strings, '' or
\* null, generate_question_numbers returns exactly the label map of the
\* specified scan.
C1_ReturnsTheSpecifiedLabels ==
    ret.called =>
        /\ ~ret.val.raised
        /\ Entries(ret.val.question_map) = Entries(SpecifiedLabels(arg))

\* the number after the dot of a label
SequencePart(label) ==
    ToInt(label, IndexOf(label, ".", 1) + 1, Len(label) - IndexOf(label, ".", 1))

\* some identifier of the returned map has a sequence part above 1
Inflated(numbers) == \E e \in Entries(numbers.question_map) : SequencePart(e[2]) > 1

\* C3 as claimed: there are comment lists, duplicates of one identifier
\* interleaved with other identifiers, in which a later identifier gets at
\* its first labelling a sequence part greater than 1.
C3_SomeListInflatesASequence ==
    ret.called => \E cs \in CommentLists : Inflated(generate_question_numbers(cs))

\* C3 as amended: whatever the interleaving of duplicates, no identifier
\* ever gets a label whose sequence part is greater than 1.
C3_NoSequenceIsInflated == ret.called => ~Inflated(ret.val)

\* a list where a duplicate row comes before the first row of another
\* identifier, which was labelled with sequence part 1
C3_Witness ==
    /\ ret.called
    /\ \E i, j, k \in 1..Len(arg) :
          /\ i < j /\ j < k
          /\ arg[i].id = arg[j].id
          /\ \A h \in 1..(k - 1) : arg[h].id /= arg[k].id
          /\ Has(ret.val.question_map, arg[k].id)
          /\ SequencePart(At(ret.val.question_map, arg[k].id)) = 1

(***************************************************************************)
(* Claims about process_inspection_data (under SpecExtract).               *)
(***************************************************************************)
IsListOfDicts(v) ==
    v.t = "list" /\ \A k \in 1..Len(v.items) : v.items[k].t = "dict"

MetaDataOf(doc) == Get(doc, "metaData", EmptyList)

QuestionsOf(doc) == Get(doc, "questions", EmptyList)

ResponsesOf(question) == Get(question, "complexResponses", EmptyList)

ObservationsOf(response) == Get(response, "observations", EmptyList)

OperatorCommentsOf(observation) ==
    Get(observation, "initialOperatorComments", EmptyList)

\* a document of the shape the data model gives, any field missing
WellFormed(doc) ==
    /\ doc.t = "dict"
    /\ IsListOfDicts(MetaDataOf(doc))
    /\ \A k \in 1..Len(MetaDataOf(doc).items) :
          LET item == MetaDataOf(doc).items[k] IN
          /\ Has(item.items, "key") /\ Has(item.items, "value")
          /\ At(item.items, "key").t = "str"
    /\ IsListOfDicts(QuestionsOf(doc))
    /\ \A q \in 1..Len(QuestionsOf(doc).items) :
          LET question == QuestionsOf(doc).items[q] IN
          /\ Get(question, "templateQuestionId", EmptyStr).t \in {"str", "null"}
          /\ IsListOfDicts(ResponsesOf(question))
          /\ \A r \in 1..Len(ResponsesOf(question).items) :
                LET response == ResponsesOf(question).items[r] IN
                /\ IsListOfDicts(ObservationsOf(response))
                /\ \A o \in 1..Len(ObservationsOf(response).items) :
                      LET observation == ObservationsOf(response).items[o] IN
                      /\ Get(observation, "comments", EmptyStr).t = "str"
                      /\ IsListOfDicts(OperatorCommentsOf(observation))

\* the call was made on a well-formed document that is not empty
Processed == ret.called /\ WellFormed(arg) /\ Truthy(arg)

ObservationAt(doc, q, r, o) ==
    ObservationsOf(ResponsesOf(QuestionsOf(doc).items[q]).items[r]).items[o]

\* the <<question, response, observation, operator comment>> places of a
\* document whose observation has a non-empty comments field
Triples(doc) ==
    UNION {UNION {UNION {
        {<<q, r, o, c>> :
            c \in IF Truthy(Get(ObservationAt(doc, q, r, o), "comments", EmptyStr))
                  THEN 1..Len(OperatorCommentsOf(ObservationAt(doc, q, r, o)).items)
                  ELSE {}}
        : o \in 1..Len(ObservationsOf(
                         ResponsesOf(QuestionsOf(doc).items[q]).items[r]).items)}
        : r \in 1..Len(ResponsesOf(QuestionsOf(doc).items[q]).items)}
        : q \in 1..Len(QuestionsOf(doc).items)}

\* traversal order: questions, then responses, observations, operator comments
Before(a, b) ==
    \E n \in 1..4 : a[n] < b[n] /\ \A h \in 1..(n - 1) : a[h] = b[h]

\* the place of the k-th record in traversal order
TripleAt(doc, k) ==
    CHOOSE t \in Triples(doc) :
        Cardinality({u \in Triples(doc) : Before(u, t)}) = k - 1

\* the templateQuestionId behind each record, in traversal order
IdentifiersOf(doc) ==
    [k \in 1..Cardinality(Triples(doc)) |->
        Get(QuestionsOf(doc).items[TripleAt(doc, k)[1]], "templateQuestionId",
            EmptyStr)]

\* the least place in ids of the identifier at place k
FirstPlace(ids, k) == Least({j \in 1..k : ids[j] = ids[k]})

\* C2: any two rows of the comments table whose question has the same
\* templateQuestionId carry the same label, and it is the label the
\* identifier got at its first occurrence in the scan.
C2_SameIdentifierSameLabel ==
    Processed =>
        LET rows == ret.val.comments_data.items
            ids == IdentifiersOf(arg)
        IN /\ Len(rows) = Len(ids)
           /\ \A j, k \in 1..Len(rows) : ids[j] = ids[k] => rows[j][1] = rows[k][1]
           /\ \A k \in 1..Len(rows) :
                 rows[k][1] =
                     Str(At(generate_question_numbers(
                                [h \in 1..FirstPlace(ids, k) |-> [id |-> ids[h]]]
                            ).question_map, ids[k]))

\* two rows of one identifier with a row of another identifier between them
C2_Witness ==
    /\ Processed
    /\ LET rows == ret.val.comments_data.items
           ids == IdentifiersOf(arg)
       IN \E i, j, k \in 1..Len(rows) :
             /\ i < j /\ j < k
             /\ ids[i] = ids[k] /\ ids[i] /= ids[j]
             /\ rows[i][1] = rows[k][1] /\ rows[i][1] /= rows[j][1]

\* the keys of a metaData array, the places of a key
KeyAt(doc, k) == At(MetaDataOf(doc).items[k].items, "key").s

PlacesOf(doc, key) ==
    {k \in 1..Len(MetaDataOf(doc).items) : KeyAt(doc, k) = key}

\* C4: the metadata table has exactly one row per distinct key, in the
\* order of the keys' first occurrences, each with the value of the key's
\* last occurrence, date-reformatted when the key contains "DATE".
C4_MetadataRows ==
    Processed =>
        LET rows == ret.val.metadata_list.items
            keys == {KeyAt(arg, k) : k \in 1..Len(MetaDataOf(arg).items)}
        IN /\ Len(rows) = Cardinality(keys)
           /\ {rows[k][1] : k \in 1..Len(rows)} = {Str(key) : key \in keys}
           /\ \A a, b \in 1..Len(rows) :
                 a < b => Least(PlacesOf(arg, rows[a][1].s))
                              < Least(PlacesOf(arg, rows[b][1].s))
           /\ \A a \in 1..Len(rows) :
                 LET value == At(MetaDataOf(arg).items[
                                   Greatest(PlacesOf(arg, rows[a][1].s))].items,
                                 "value")
                 IN rows[a][2] = IF Contains(rows[a][1].s, KeyDate, 1)
                                 THEN format_date(value) ELSE value

\* a key repeated with another key between, and with another value
C4_Witness ==
    /\ Processed
    /\ \E i, j, k \in 1..Len(MetaDataOf(arg).items) :
          /\ i < j /\ j < k
          /\ KeyAt(arg, i) = KeyAt(arg, k) /\ KeyAt(arg, i) /= KeyAt(arg, j)
          /\ KeyAt(arg, i) = KeyDate
          /\ At(MetaDataOf(arg).items[i].items, "value") = Str(<<"v">>)
          /\ At(MetaDataOf(arg).items[k].items, "value") = Str(DateText)
    /\ Len(ret.val.metadata_list.items) = 2
    /\ ret.val.metadata_list.items[1][1] = Str(KeyDate)
    /\ ret.val.metadata_list.items[1][2] /= Str(DateText)

\* C5: the comments table holds exactly one record per (question,
\* observation, operator comment) whose observation has non-empty comments,
\* and no other, in traversal order.
C5_OneRecordPerTriple ==
    Processed =>
        LET rows == ret.val.comments_data.items IN
        /\ Len(rows) = Cardinality(Triples(arg))
        /\ \A k \in 1..Len(rows) :
              LET t == TripleAt(arg, k)
                  observation == ObservationAt(arg, t[1], t[2], t[3])
                  op_comment == OperatorCommentsOf(observation).items[t[4]]
              IN /\ rows[k][2] = Get(observation, "comments", EmptyStr)
                 /\ rows[k][3] = Get(op_comment, "comments", EmptyStr)
                 /\ rows[k][4] = format_date(Get(op_comment, "commentDate", EmptyStr))

\* a document with an observation that has no comments and, after it, one
\* that has two operator comments, both in the table
C5_Witness ==
    /\ Processed
    /\ \E q \in 1..Len(QuestionsOf(arg).items) :
       \E r \in 1..Len(ResponsesOf(QuestionsOf(arg).items[q]).items) :
          LET os == ObservationsOf(ResponsesOf(QuestionsOf(arg).items[q]).items[r]).items
          IN Len(os) = 2 /\ os[1] \in {ObsSilent, ObsEmpty} /\ os[2] = ObsTwo
    /\ Len(ret.val.comments_data.items) >= 2

MissingOrEmpty(doc, field) == ~Has(doc.items, field) \/ ~Truthy(At(doc.items, field))

\* both tables present, the table of a missing or empty array without rows
EmptyTablesFor(doc, val) ==
    /\ val.metadata_list /= None /\ val.comments_data /= None
    /\ MissingOrEmpty(doc, "metaData") => val.metadata_list = EmptyList
    /\ MissingOrEmpty(doc, "questions") => val.comments_data = EmptyList

\* C6 as claimed: every parsed document object whose questions and/or
\* metaData array is empty or missing, the object with neither field
\* included, gets present tables; absent tables come from a traversal
\* failure only.
C6_EveryObjectGetsTables ==
    ret.called /\ arg.t = "dict" =>
        /\ (/\ WellFormed(arg)
            /\ MissingOrEmpty(arg, "metaData") \/ MissingOrEmpty(arg, "questions"))
               => EmptyTablesFor(arg, ret.val)
        /\ ret.val.metadata_list = None => ret.val.errors /= <<>>

\* C6 as amended: every parsed document object that has at least one field
\* and whose questions and/or metaData array is empty or missing gets
\* present tables; absent tables come from a traversal failure or from an
\* empty input (null, {} and the other falsy values), which gets absent
\* tables and no error.
C6_NonEmptyObjectGetsTables ==
    ret.called =>
        /\ (/\ WellFormed(arg) /\ Truthy(arg)
            /\ MissingOrEmpty(arg, "metaData") \/ MissingOrEmpty(arg, "questions"))
               => EmptyTablesFor(arg, ret.val) /\ ret.val.errors = <<>>
        /\ ret.val.metadata_list = None \/ ret.val.comments_data = None
               => ret.val.errors /= <<>> \/ ~Truthy(arg)
        /\ ~Truthy(arg) => ret.val = Returned(None, None, <<>>)

\* an object with some field and neither array, and its two empty tables
C6_Witness ==
    /\ ret.called
    /\ arg.t = "dict" /\ Truthy(arg)
    /\ ~Has(arg.items, "metaData") /\ ~Has(arg.items, "questions")
    /\ ret.val.metadata_list = EmptyList /\ ret.val.comments_data = EmptyList

(***************************************************************************)
(* The session: files are chosen in the uploader and the button pressed.   *)
(***************************************************************************)
\* the bytes of the files a normalizer run is given
Bytes == {"{", "}", "\"", ",", " ", "NUL", "CR", "FF", "BAD"}

SampleDocument ==
    Dict(<<<<"metaData", List(<<Dict(<<<<"key", Str(KeyDate)>>,
                                      <<"value", Str(DateText)>>>>)>>)>>,
           <<"questions", List(<<Question(IdA, <<Response(<<ObsTwo>>)>>)>>)>>>>)

OtherDocument ==
    Dict(<<<<"metaData", List(<<Dict(<<<<"key", Str(<<"k">>)>>,
                                      <<"value", Str(<<"v">>)>>>>)>>)>>,
           <<"questions", List(<<Question(IdB, <<Response(<<ObsOne>>)>>)>>)>>>>)

\* a dict whose traversal raises
BrokenDocument == Dict(<<<<"metaData", None>>>>)

\* {"":1}, the text of an object with members
ObjectText == <<"{", "\"", "\"", ":", "1", "}">>

\* texts of an object with members: clean, and in need of each clean-up
ObjectTexts ==
    {ObjectText,
     <<"{", "\"", ",">> \o SubSeq(ObjectText, 2, 6),
     <<"{", ",">> \o SubSeq(ObjectText, 2, 6),
     <<" ", "NUL">> \o ObjectText \o <<"CR">>,
     <<"BAD">> \o ObjectText,
     SubSeq(ObjectText, 1, 4) \o <<"FF">> \o SubSeq(ObjectText, 5, 6)}

\* {}, a number, a string, and texts no attempt parses
OtherTexts ==
    {<<"{", "}">>, <<"1">>, <<"\"", "\"">>,
     SubSeq(ObjectText, 1, 4), <<"BAD">>, <<>>, <<"1", "{">>}

SessionFiles ==
    {File(b, d) : b \in ObjectTexts,
                  d \in {SampleDocument, OtherDocument, BrokenDocument}}
        \cup {File(b, SampleDocument) : b \in OtherTexts}

\* {",":1}, an object whose key is a comma
CommaKeyText == <<"{", "\"", ",", "\"", ":", "1", "}">>

\* object texts with NUL and CR characters in them
LongTexts ==
    {ObjectText \o <<"CR">>,
     <<"NUL">> \o ObjectText,
     SubSeq(ObjectText, 1, 2) \o <<"NUL">> \o SubSeq(ObjectText, 3, 6),
     SubSeq(ObjectText, 1, 4) \o <<"CR", "1", "NUL">> \o SubSeq(ObjectText, 6, 6),
     CommaKeyText \o <<"CR">>,
     <<"{", "NUL">> \o SubSeq(CommaKeyText, 2, 7),
     <<"{", ",">> \o SubSeq(ObjectText, 2, 6) \o <<"CR">>,
     <<"FF">> \o ObjectText \o <<"NUL">>,
     SubSeq(ObjectText, 1, 5) \o <<"NUL">>}

InitNormalizer ==
    /\ uploaded_file \in
          {None} \cup {File(b, SampleDocument) :
                          b \in SeqsUpTo(Bytes, MaxPayload) \cup LongTexts}
    /\ inspection_data = None /\ metadata_list = None /\ comments_data = None
    /\ messages = <<>> /\ last_parsed = None
    /\ arg = None /\ ret = NotCalled

SpecNormalizer == InitNormalizer /\ [][ProcessFile]_vars

InitSession == NoSession /\ arg = None /\ ret = NotCalled

\* the user picks a file, or clears the uploader; the script reruns
Upload ==
    /\ \E f \in SessionFiles \cup {None} : uploaded_file' = f
    /\ messages' = <<>>
    /\ UNCHANGED <<inspection_data, metadata_list, comments_data, last_parsed,
                   arg, ret>>

NextSession == Upload \/ ProcessFile

SpecSession == InitSession /\ [][NextSession]_vars

(***************************************************************************)
(* Claims about the handler (under SpecNormalizer and SpecSession).        *)
(***************************************************************************)
\* the button has been pressed with a file in the uploader
Triggered == uploaded_file /= None /\ messages /= <<>>

\* the text the file decodes to
TextOf(file) == Decode(file.bytes)

\* the first json.loads raised, and so did the second pass: the text has
\* no "{", or the second json.loads raised
BothPassesFailed(file) ==
    /\ ~JsonValid(Cleaned(file.bytes))
    /\ \/ IndexOf(Filtered(Cleaned(file.bytes)), "{", 1) = 0
       \/ ~JsonValid(Rebraced(Filtered(Cleaned(file.bytes))))

IsParseFailure(message) ==
    /\ message.kind = "error"
    /\ message.text = "Invalid JSON format"
    /\ message.detail.exc = "JSONDecodeError"

\* C7: when the text parses and the traversal raises, the trigger ends with
\* both tables absent and the traversal failure as its one status: a
\* trigger's outcome is exactly one of clean success, recovered success,
\* parse failure and traversal failure.
C7_TraversalFailureIsTheOnlyStatus ==
    (\E k \in 1..Len(messages) : messages[k] = ProcessingError) =>
        /\ metadata_list = None /\ comments_data = None
        /\ messages = <<ProcessingError>>

\* C8: whenever the first parse fails and the second pass fails too, for
\* either reason, the trigger reports one parse failure that carries the
\* JSON parser's error.
C8_BothPassesFailIsParseFailure ==
    Triggered /\ BothPassesFailed(uploaded_file) =>
        Len(messages) = 1 /\ IsParseFailure(messages[1])

NulOrCr == {"NUL", "CR"}

HasNulOrCr(s) == \E k \in 1..Len(s) : s[k] \in NulOrCr

\* s with exactly its NUL and CR characters removed
WithoutNulAndCr(s) == SelectSeq(s, LAMBDA c : c \notin NulOrCr)

\* C9 as claimed: for every text with a NUL or a CR in it, the parse
\* succeeds if and only if the text without exactly those characters is
\* valid JSON.
C9_ParsesIffCleanTextIsJson ==
    Triggered /\ HasNulOrCr(TextOf(uploaded_file)) =>
        (last_parsed = uploaded_file
            <=> JsonValid(WithoutNulAndCr(TextOf(uploaded_file))))

\* C9 as amended: for every text with a NUL or a CR in it that does not
\* begin with {", the first parse succeeds if the text without exactly
\* those characters is valid JSON.
C9_CleanJsonParsesAtFirstAttempt ==
    (/\ Triggered /\ HasNulOrCr(TextOf(uploaded_file))
     /\ ~StartsWith(TextOf(uploaded_file), <<"{", "\"", ",">>)
     /\ JsonValid(WithoutNulAndCr(TextOf(uploaded_file))))
        => /\ last_parsed = uploaded_file
           /\ messages[Len(messages)] = LoadedSuccessfully
           /\ inspection_data =
                  JsonValue(WithoutNulAndCr(TextOf(uploaded_file)),
                            uploaded_file.document)

\* an object text with a NUL inside and a CR after it has been parsed at
\* the first attempt
C9_Witness ==
    /\ Triggered
    /\ \E j, k \in 2..Len(uploaded_file.bytes) :
          /\ j < k /\ k < Len(uploaded_file.bytes)
          /\ uploaded_file.bytes[j] = "CR" /\ uploaded_file.bytes[k] = "NUL"
    /\ JsonValid(WithoutNulAndCr(TextOf(uploaded_file)))
    /\ messages = <<LoadedSuccessfully>>
    /\ inspection_data = SampleDocument

\* the three session artifacts are those of the file last parsed
ArtifactsOfLastParsed ==
    IF last_parsed = None
    THEN inspection_data = None /\ metadata_list = None /\ comments_data = None
    ELSE /\ Parse(last_parsed).parsed
         /\ inspection_data = Parse(last_parsed).value
         /\ metadata_list = process_inspection_data(inspection_data).metadata_list
         /\ comments_data = process_inspection_data(inspection_data).comments_data

\* a trigger without a file, or with a file no attempt parses
FailedTrigger ==
    /\ messages' /= <<>>
    /\ uploaded_file = None \/ ~Parse(uploaded_file).parsed

\* C10: after any sequence of triggers the tables are the pair
\* process_inspection_data yields for the document of the most recent
\* trigger whose parse succeeded; a trigger whose parse fails or that has
\* no upload leaves the three artifacts unchanged; they are absent before
\* the first successful parse.
C10_ArtifactsOfTheLastParsedFile ==
    /\ []ArtifactsOfLastParsed
    /\ [][/\ FailedTrigger
              => UNCHANGED <<inspection_data, metadata_list, comments_data>>
          /\ messages' /= <<>> /\ uploaded_file /= None
                /\ Parse(uploaded_file).parsed
              => last_parsed' = uploaded_file]_vars

\* a file has been parsed; a trigger with a file no attempt parses
\* came last, and the artifacts of the parsed file are still there
C10_Witness ==
    /\ Triggered /\ ~Parse(uploaded_file).parsed
    /\ IsParseFailure(messages[1])
    /\ last_parsed /= None /\ last_parsed.document = OtherDocument
    /\ inspection_data = OtherDocument
    /\ metadata_list = process_inspection_data(OtherDocument).metadata_list
    /\ comments_data = process_inspection_data(OtherDocument).comments_data
    /\ metadata_list /= process_inspection_data(SampleDocument).metadata_list

====
